---------------------------- MODULE Spec2Model ----------------------------
(***************************************************************************)
(* State-machine model of the search engine's index and document store:    *)
(*   - TrieNode (src/src/trie.cpp): the sibling/child trie and its insert; *)
(*   - Maxheap  (src/header/Maxheap.hpp): the top-k selector;              *)
(*   - Mymap    (src/src/Map.cpp): the document store and its insert;      *)
(*   - read_sizes (src/src/Document_store.cpp): the corpus size probe.     *)
(* Each component has its own specification over the shared variables.     *)
(***************************************************************************)
EXTENDS Integers, Sequences, FiniteSets, Bags, TLC

VARIABLES
    nodes,          \* the trie: sequence of TrieNode objects, nodes[root] is the root
    log,            \* history: bag of <<term, id>> pairs passed to TrieNode::insert
    call,           \* history: the last TrieNode::insert call and what it read
    heap,           \* Maxheap::heap, the held scores
    ids,            \* Maxheap::ids, the held document ids
    curnumofscores, \* Maxheap::curnumofscores
    maxnumofscores, \* Maxheap::maxnumofscores, the capacity k
    offers,         \* history: the <<score, id>> pairs offered in this query
    drained,        \* history: the <<score, id>> pairs extracted by the drain
    hphase,         \* position of the query: "offer", "drain" or "done"
    size,           \* Mymap::size
    documents,      \* Mymap::documents, NoText for nullptr
    doc_lengths,    \* Mymap::doc_lengths
    mcall,          \* history: the last Mymap::insert call, its result, the store before it
    linecounter,    \* *linecounter of read_sizes
    maxlength,      \* *maxlength of read_sizes
    rcall           \* history: the last read_sizes call, its result, the counters before it

trieVars == <<nodes, log, call>>
heapVars == <<heap, ids, curnumofscores, maxnumofscores, offers, drained, hphase>>
mapVars == <<size, documents, doc_lengths, mcall>>
fileVars == <<linecounter, maxlength, rcall>>

vars == <<nodes, log, call, heap, ids, curnumofscores, maxnumofscores, offers,
          drained, hphase, size, documents, doc_lengths, mcall, linecounter,
          maxlength, rcall>>

(***************************************************************************)
(* Bounds of the model.                                                    *)
(***************************************************************************)
MaxTermLen == 2     \* longest term passed to insert
MaxInserts == 2     \* number of TrieNode::insert calls explored
MaxK == 2           \* largest Selector capacity
MaxOffers == 3      \* number of offers per query
MaxSize == 2        \* largest document count of a Mymap
MaxLineLen == 2     \* longest line body handed to Mymap::insert
MaxFileLen == 3     \* longest corpus file, in bytes
MaxReads == 2       \* number of read_sizes calls explored

(***************************************************************************)
(* Characters are signed char values; a C string ends with NUL.            *)
(***************************************************************************)
NUL == 0
UNSET == -1
nullptr == 0
root == 1

\* 'a', 'b' and the byte 0xFF, which a signed char reads as -1
Chars == {97, 98, -1}
Bytes == Chars \cup {NUL}
DocIds == {0, 1}

SeqsUpTo(S, n) == UNION {[1..k -> S] : k \in 0..n}

Terms == SeqsUpTo(Chars, MaxTermLen)

\* What may lie in memory after a string's terminator: any bytes; reading
\* stops at the first non-NUL byte that is followed by NUL.
Garbage == {<<97, NUL>>, <<NUL, 98, NUL>>, <<-1, NUL>>, <<98, 97, NUL>>}

(***************************************************************************)
(* TrieNode                                                                *)
(***************************************************************************)
\* TrieNode::TrieNode(): value(-1), sibling(nullptr), child(nullptr); the
\* posting list member is commented out, so a node never holds postings.
NewNode == [value |-> UNSET, sibling |-> nullptr, child |-> nullptr, list |-> <<>>]

\* strlen(token) for token = buf + p
RECURSIVE strlen(_, _)
strlen(buf, p) == IF buf[p] = NUL THEN 0 ELSE 1 + strlen(buf, p + 1)

\* the condition without its second disjunct
MatchesUnsetOnly(value, c) == value = UNSET

\* the condition always taken
MatchesAlways(value, c) == TRUE

\* if(value ==-1 || value ==token[0])
Matches(value, c) == value = UNSET \/ value = c

\* the assignment together with a posting at every node of the path
VisitAndPost(node, c, id) == [node EXCEPT !.value = c, !.list = Append(@, id)]

\* value = token[0];   (id is not used by the code)
Visit(node, c, id) == [node EXCEPT !.value = c]

\* new TrieNode() linked from field f of node n
Link(ns, n, f) ==
    IF ns[n][f] = nullptr
    THEN Append([ns EXCEPT ![n][f] = Len(ns) + 1], NewNode)
    ELSE ns

\* void TrieNode::insert(char* token, int id), this = n, token = buf + p.
\* Yields the trie and the index of the last byte read.
RECURSIVE TrieNode_insert(_, _, _, _, _)
TrieNode_insert(ns, n, buf, p, id) ==
    IF Matches(ns[n].value, buf[p])
    THEN LET ns1 == [ns EXCEPT ![n] = Visit(@, buf[p], id)]
         IN  IF strlen(buf, p) = 1
             THEN [nodes |-> ns1, read |-> p + 1]
             ELSE LET ns2 == Link(ns1, n, "child")
                  IN  TrieNode_insert(ns2, ns2[n].child, buf, p + 1, id)
    ELSE LET ns2 == Link(ns, n, "sibling")
         IN  TrieNode_insert(ns2, ns2[n].sibling, buf, p, id)

\* lookup(term): scan the sibling chain from n for character c
RECURSIVE FindInChain(_, _, _)
FindInChain(ns, n, c) ==
    IF n = nullptr THEN nullptr
    ELSE IF ns[n].value = c THEN n
    ELSE FindInChain(ns, ns[n].sibling, c)

\* lookup(term): the node reached by term[i..], starting at chain head h
RECURSIVE Walk(_, _, _, _)
Walk(ns, h, term, i) ==
    LET m == FindInChain(ns, h, term[i])
    IN  IF m = nullptr THEN nullptr
        ELSE IF i = Len(term) THEN m
        ELSE Walk(ns, ns[m].child, term, i + 1)

\* the terminal node of a term, nullptr when the trie has no path for it
TerminalNode(ns, term) == IF term = <<>> THEN nullptr ELSE Walk(ns, root, term, 1)

NotFound == [found |-> FALSE, list |-> <<>>]

\* lookup(term) -> Posting List or "not found"
lookup(ns, term) ==
    LET m == TerminalNode(ns, term)
    IN  IF m = nullptr \/ ns[m].list = <<>>
        THEN NotFound
        ELSE [found |-> TRUE, list |-> ns[m].list]

\* root->insert(term, id): a non-empty term is a buffer that ends at its
\* terminator; an empty term is a lone terminator with foreign memory behind.
TrieInsert(term, id, beyond) ==
    /\ BagCardinality(log) < MaxInserts
    /\ LET r == TrieNode_insert(nodes, root, term \o <<NUL>> \o beyond, 1, id)
       IN  /\ nodes' = r.nodes
           /\ call' = [term |-> term, id |-> id, read |-> r.read]
    /\ log' = log (+) SetToBag({<<term, id>>})

InsertTerm ==
    \E term \in Terms \ {<<>>}, id \in DocIds :
        TrieInsert(term, id, <<>>) /\ UNCHANGED <<heapVars, mapVars, fileVars>>

InsertEmptyTerm ==
    \E id \in DocIds, g \in Garbage :
        TrieInsert(<<>>, id, g) /\ UNCHANGED <<heapVars, mapVars, fileVars>>

(***************************************************************************)
(* Maxheap (the Selector).  The header declares the fields and defines     *)
(* get_id and get_count; insert and remove follow the Selector contract:   *)
(* a bounded structure whose root is the best entry held.                  *)
(***************************************************************************)
Scores == {-1, 0, 1}

\* the order of the drain: higher score first, lower id first among equal scores
Better(s1, i1, s2, i2) == s1 > s2 \/ (s1 = s2 /\ i1 < i2)

\* where insert puts a new entry: behind every entry it is not better than
SlotFor(hs, is, s, i) ==
    1 + Cardinality({j \in 1..Len(hs) : ~Better(s, i, hs[j], is[j])})

InsertAt(q, p, x) == SubSeq(q, 1, p - 1) \o <<x>> \o SubSeq(q, p, Len(q))

\* the id of the last slot instead of the root's
get_id_last == ids[Len(ids)]

\* int get_id(){ return ids[0]; }
get_id == ids[1]

\* int get_count(){ return curnumofscores; }
get_count == curnumofscores

\* void insert(double score, int id): the offer of the Selector
Maxheap_insert(score, id) ==
    /\ hphase = "offer"
    /\ Len(offers) < MaxOffers
    /\ offers' = Append(offers, <<score, id>>)
    /\ IF curnumofscores < maxnumofscores
       THEN LET p == SlotFor(heap, ids, score, id)
            IN  /\ heap' = InsertAt(heap, p, score)
                /\ ids' = InsertAt(ids, p, id)
                /\ curnumofscores' = curnumofscores + 1
       ELSE LET n == curnumofscores
            IN  IF Better(score, id, heap[n], ids[n])
                THEN LET hs == SubSeq(heap, 1, n - 1)
                         is == SubSeq(ids, 1, n - 1)
                         p == SlotFor(hs, is, score, id)
                     IN  /\ heap' = InsertAt(hs, p, score)
                         /\ ids' = InsertAt(is, p, id)
                         /\ curnumofscores' = curnumofscores
                ELSE UNCHANGED <<heap, ids, curnumofscores>>
    /\ UNCHANGED <<maxnumofscores, drained, hphase>>

\* double remove(): takes the root away and returns its score
Maxheap_remove ==
    /\ heap' = Tail(heap)
    /\ ids' = Tail(ids)
    /\ curnumofscores' = curnumofscores - 1

Offer ==
    \E score \in Scores, id \in DocIds :
        Maxheap_insert(score, id) /\ UNCHANGED <<trieVars, mapVars, fileVars>>

\* drain(): while (get_count() > 0) { id = get_id(); score = remove(); }
StartDrain ==
    /\ hphase = "offer"
    /\ hphase' = IF get_count > 0 THEN "drain" ELSE "done"
    /\ UNCHANGED <<heap, ids, curnumofscores, maxnumofscores, offers, drained>>
    /\ UNCHANGED <<trieVars, mapVars, fileVars>>

DrainStep ==
    /\ hphase = "drain"
    /\ drained' = Append(drained, <<heap[1], get_id>>)
    /\ Maxheap_remove
    /\ hphase' = IF get_count' > 0 THEN "drain" ELSE "done"
    /\ UNCHANGED <<maxnumofscores, offers>>
    /\ UNCHANGED <<trieVars, mapVars, fileVars>>

\* the drained Selector serves the next query
Reuse ==
    /\ hphase = "done"
    /\ hphase' = "offer"
    /\ offers' = <<>>
    /\ drained' = <<>>
    /\ UNCHANGED <<heap, ids, curnumofscores, maxnumofscores>>
    /\ UNCHANGED <<trieVars, mapVars, fileVars>>

(***************************************************************************)
(* Mymap                                                                   *)
(***************************************************************************)
SP == 32
TAB == 9
NL == 10

\* a char* that is nullptr, and one that points at text
NoText == [null |-> TRUE, text |-> <<>>]
Text(t) == [null |-> FALSE, text |-> t]

\* no call of Mymap::insert is waiting for its caller
NoCall == [line |-> NoText, i |-> 0, ret |-> 0]

\* lines as getline yields them: a body, then at most one newline
LineBodies == SeqsUpTo({SP, TAB, 97}, MaxLineLen)
Lines == LineBodies \cup {b \o <<NL>> : b \in LineBodies}

\* the check with i > size for i >= size
RejectsOffByOne(line, i) == line.null \/ i < 0 \/ i > size

\* if(line == nullptr || i < 0 || i >= size) return -1;
Rejects(line, i) == line.null \/ i < 0 \/ i >= size

\* the line kept with its newline
KeepNewline(buf, len) == [buf |-> buf, len |-> len]

\* if(len > 0 && line[len-1] == '\n'){ line[len-1] = '\0'; len--; }
ChopNewline(buf, len) ==
    IF len > 0 /\ buf[len] = NL
    THEN [buf |-> [buf EXCEPT ![len] = NUL], len |-> len - 1]
    ELSE [buf |-> buf, len |-> len]

\* *p == ' ' || *p == '\t'
IsBlank(c) == c = SP \/ c = TAB

\* while(*start == ' ' || *start == '\t'){ start++; len--; }
RECURSIVE SkipLeading(_, _, _)
SkipLeading(buf, start, len) ==
    IF IsBlank(buf[start])
    THEN SkipLeading(buf, start + 1, len - 1)
    ELSE [start |-> start, len |-> len]

\* while(end > start && (*end == ' ' || *end == '\t')){ *end = '\0'; end--; len--; }
RECURSIVE TrimTrailing(_, _, _, _)
TrimTrailing(buf, start, end, len) ==
    IF end > start /\ IsBlank(buf[end])
    THEN TrimTrailing([buf EXCEPT ![end] = NUL], start, end - 1, len - 1)
    ELSE [buf |-> buf, len |-> len]

\* strcpy(dst, buf + start): the bytes up to the terminator
CString(buf, start) == SubSeq(buf, start, start + strlen(buf, start) - 1)

\* the body of Mymap::insert from strlen to strcpy: the text stored and
\* the size of the array allocated for it
Cleaned(line) ==
    LET c == ChopNewline(line \o <<NUL>>, Len(line))
        l == SkipLeading(c.buf, 1, c.len)
        t == TrimTrailing(c.buf, l.start, l.start + l.len - 1, l.len)
    IN  [text |-> CString(t.buf, l.start), alloc |-> t.len + 1]

\* documents[i] = new char[len + 1] holds the string strcpy writes into it
AllocFits == \A line \in Lines : Len(Cleaned(line).text) + 1 <= Cleaned(line).alloc

\* int Mymap::insert(char* line, int i)
Mymap_insert(line, i) ==
    IF Rejects(line, i)
    THEN /\ mcall' = [line |-> line, i |-> i, ret |-> -1]
         /\ UNCHANGED <<size, documents, doc_lengths>>
    ELSE /\ documents' = [documents EXCEPT ![i] = Text(Cleaned(line.text).text)]
         /\ mcall' = [line |-> line, i |-> i, ret |-> 1]
         /\ UNCHANGED <<size, doc_lengths>>

InsertLine ==
    /\ mcall = NoCall
    /\ \E line \in Lines, i \in (-1)..(size + 1) : Mymap_insert(Text(line), i)
    /\ UNCHANGED <<trieVars, heapVars, fileVars>>

InsertNullLine ==
    /\ mcall = NoCall
    /\ \E i \in (-1)..(size + 1) : Mymap_insert(NoText, i)
    /\ UNCHANGED <<trieVars, heapVars, fileVars>>

\* the caller takes the result
InsertReturns ==
    /\ mcall # NoCall
    /\ mcall' = NoCall
    /\ UNCHANGED <<size, documents, doc_lengths>>
    /\ UNCHANGED <<trieVars, heapVars, fileVars>>

(***************************************************************************)
(* read_sizes                                                              *)
(***************************************************************************)
\* a file that cannot be opened, and the contents of one that can
NoFile == [open |-> FALSE, bytes |-> <<>>]
Files == {NoFile} \cup {[open |-> TRUE, bytes |-> b] : b \in SeqsUpTo({97, NL}, MaxFileLen)}

SetMin(S) == CHOOSE x \in S : \A y \in S : x <= y

\* getline(&line, &len, file) with the file read up to pos - 1: the number of
\* bytes of the next line, its newline included; -1 at the end of the file
getline(bytes, pos) ==
    IF pos > Len(bytes) THEN -1
    ELSE LET nls == {j \in pos..Len(bytes) : bytes[j] = NL}
         IN  IF nls = {} THEN Len(bytes) - pos + 1 ELSE SetMin(nls) - pos + 1

\* while((current_length=getline(&line, &len, file))!=-1){ ... }
RECURSIVE CountLines(_, _, _, _)
CountLines(bytes, pos, lc, ml) ==
    LET n == getline(bytes, pos)
        current_length == IF n > 0 /\ bytes[pos + n - 1] = NL THEN n - 1 ELSE n
    IN  IF n = -1
        THEN [linecounter |-> lc, maxlength |-> ml]
        ELSE CountLines(bytes, pos + n, lc + 1,
                        IF current_length > ml THEN current_length ELSE ml)

\* the read without the empty-file check
AtEOFNever(bytes) == FALSE

\* int c = fgetc(file); if(c == EOF)
AtEOF(bytes) == bytes = <<>>

\* int read_sizes(int *linecounter,int *maxlength, char *file_name)
read_sizes(lc, ml, file) ==
    IF ~file.open
    THEN [ret |-> -1, linecounter |-> lc, maxlength |-> ml]
    ELSE IF AtEOF(file.bytes)
    THEN [ret |-> -1, linecounter |-> lc, maxlength |-> ml]
    ELSE LET r == CountLines(file.bytes, 1, lc, ml)
         IN  [ret |-> 1, linecounter |-> r.linecounter, maxlength |-> r.maxlength]

\* read_sizes was not called yet
NoRead == [file |-> NoFile, ret |-> 0, linecounter |-> 0, maxlength |-> 0, n |-> 0]

ReadSizes ==
    /\ rcall.n < MaxReads
    /\ \E file \in Files :
        LET r == read_sizes(linecounter, maxlength, file)
        IN  /\ linecounter' = r.linecounter
            /\ maxlength' = r.maxlength
            /\ rcall' = [file |-> file, ret |-> r.ret, linecounter |-> linecounter,
                         maxlength |-> maxlength, n |-> rcall.n + 1]
    /\ UNCHANGED <<trieVars, heapVars, mapVars>>

(***************************************************************************)
(* Specifications, one per component.                                      *)
(***************************************************************************)
NextTrie == InsertTerm \/ InsertEmptyTerm
NextHeap == Offer \/ StartDrain \/ DrainStep \/ Reuse
NextMap == InsertLine \/ InsertNullLine \/ InsertReturns
NextFile == ReadSizes

\* Each specification runs one component from its constructed state; the
\* others stay as constructed: a fresh trie, an empty Selector of capacity 1,
\* a store of one document, untouched counters.
Init ==
    /\ nodes = <<NewNode>>
    /\ log = EmptyBag
    /\ call = [term |-> <<>>, id |-> 0, read |-> 0]
    /\ heap = <<>> /\ ids = <<>> /\ curnumofscores = 0 /\ maxnumofscores = 1
    /\ offers = <<>> /\ drained = <<>> /\ hphase = "offer"
    /\ size = 1 /\ documents = [j \in {0} |-> NoText]
    /\ doc_lengths = [j \in {0} |-> 0] /\ mcall = NoCall
    /\ linecounter = 0 /\ maxlength = 0 /\ rcall = NoRead

InitHeap ==
    /\ nodes = <<NewNode>>
    /\ log = EmptyBag
    /\ call = [term |-> <<>>, id |-> 0, read |-> 0]
    /\ heap = <<>> /\ ids = <<>> /\ curnumofscores = 0
    /\ maxnumofscores \in 1..MaxK
    /\ offers = <<>> /\ drained = <<>> /\ hphase = "offer"
    /\ size = 1 /\ documents = [j \in {0} |-> NoText]
    /\ doc_lengths = [j \in {0} |-> 0] /\ mcall = NoCall
    /\ linecounter = 0 /\ maxlength = 0 /\ rcall = NoRead

InitMap ==
    /\ nodes = <<NewNode>>
    /\ log = EmptyBag
    /\ call = [term |-> <<>>, id |-> 0, read |-> 0]
    /\ heap = <<>> /\ ids = <<>> /\ curnumofscores = 0 /\ maxnumofscores = 1
    /\ offers = <<>> /\ drained = <<>> /\ hphase = "offer"
    /\ size \in 1..MaxSize
    /\ documents = [j \in 0..(size - 1) |-> NoText]
    /\ doc_lengths = [j \in 0..(size - 1) |-> 0]
    /\ mcall = NoCall
    /\ linecounter = 0 /\ maxlength = 0 /\ rcall = NoRead

SpecTrie == Init /\ [][NextTrie]_vars
SpecHeap == InitHeap /\ [][NextHeap]_vars
SpecMap == InitMap /\ [][NextMap]_vars
SpecFile == Init /\ [][NextFile]_vars

(***************************************************************************)
(* Helpers of the properties.                                              *)
(***************************************************************************)
Range(q) == {q[j] : j \in 1..Len(q)}
Count(q, x) == Cardinality({j \in 1..Len(q) : q[j] = x})
SetMax(S) == CHOOSE x \in S : \A y \in S : x >= y
Smaller(a, b) == IF a < b THEN a ELSE b

InsertedTerms == {p[1] : p \in BagToSet(log)}
IdsOf(term) == {p[2] : p \in {q \in BagToSet(log) : q[1] = term}}

\* a non-empty term none of whose characters is the unset sentinel
GoodTerm(t) == t # <<>> /\ \A j \in 1..Len(t) : t[j] # UNSET

\* the terms looked up: every term of the alphabet, one character longer than
\* any inserted
LookupTerms == SeqsUpTo(Chars, MaxTermLen + 1)

\* the heads of the sibling chains: the root and every node's child
Heads == {root} \cup ({nodes[n].child : n \in 1..Len(nodes)} \ {nullptr})

RECURSIVE Chain(_)
Chain(n) == IF n = nullptr THEN <<>> ELSE <<n>> \o Chain(nodes[n].sibling)

\* a line without its final newline, and a text without the blanks around it
WithoutNewline(l) ==
    IF l # <<>> /\ l[Len(l)] = NL THEN SubSeq(l, 1, Len(l) - 1) ELSE l
Trimmed(l) ==
    LET keep == {j \in 1..Len(l) : l[j] \notin {SP, TAB}}
    IN  IF keep = {} THEN <<>> ELSE SubSeq(l, SetMin(keep), SetMax(keep))

(***************************************************************************)
(* Term Index                                                              *)
(***************************************************************************)
\* C1: after any sequence of inserts of non-empty terms, lookup of every
\* inserted term returns a posting list that holds every document id the
\* term was inserted with, and no other id.
C1_LookupReturnsPostings ==
    \A term \in InsertedTerms \ {<<>>} :
        LET r == lookup(nodes, term)
        IN  r.found /\ Range(r.list) = IdsOf(term)

C4_SiblingValuesDistinct ==
    \A h \in Heads :
        LET c == Chain(h)
        IN  \A j, k \in 1..Len(c) : j < k => nodes[c[j]].value # nodes[c[k]].value

\* a chain of two siblings under a common parent
C4_Witness ==
    \E h \in Heads \ {root} : Len(Chain(h)) >= 2

\* C5: insert with an empty term changes no node, creates none and reads
\* no character beyond the term's terminator.
C5_EmptyTermIsNoOp ==
    [][(log' # log /\ call'.term = <<>>) => (nodes' = nodes /\ call'.read <= 1)]_vars

\* C6: a (term, id) pair indexed n times occurs exactly n times in the
\* posting list of the term's terminal node.
C6_PostingsCountOccurrences ==
    \A p \in BagToSet(log) :
        p[1] # <<>> =>
            LET m == TerminalNode(nodes, p[1])
            IN  m # nullptr /\ Count(nodes[m].list, p[2]) = CopiesIn(p, log)

\* C9: an insert of a non-empty term without the sentinel character that was
\* inserted before leaves the trie as it is; every insert keeps every node,
\* every value that is set and every link that is set.
C9_InsertOnlyAdds ==
    [][log' # log =>
        /\ (GoodTerm(call'.term) /\ call'.term \in InsertedTerms) => nodes' = nodes
        /\ Len(nodes') >= Len(nodes)
        /\ \A n \in 1..Len(nodes) :
            /\ nodes[n].value # UNSET => nodes'[n].value = nodes[n].value
            /\ nodes[n].child # nullptr => nodes'[n].child = nodes[n].child
            /\ nodes[n].sibling # nullptr => nodes'[n].sibling = nodes[n].sibling
      ]_vars

\* a term of two characters inserted twice, in a trie of several nodes
C9_Witness ==
    /\ GoodTerm(call.term)
    /\ Len(call.term) = 2
    /\ \E p \in BagToSet(log) : p[1] = call.term /\ CopiesIn(p, log) >= 2
    /\ Len(nodes) >= 2

C7_EmptyCorpusIsAnError ==
    rcall.n > 0 =>
        /\ rcall.ret \in {-1, 1}
        /\ (~rcall.file.open \/ rcall.file.bytes = <<>>) =>
            /\ rcall.ret = -1
            /\ linecounter = rcall.linecounter
            /\ maxlength = rcall.maxlength
        /\ rcall.ret = 1 =>
            /\ rcall.file.open
            /\ rcall.file.bytes # <<>>
            /\ linecounter >= rcall.linecounter + 1

\* an empty file met after a corpus was counted
C7_Witness ==
    /\ rcall.n > 0
    /\ rcall.file.open
    /\ rcall.file.bytes = <<>>
    /\ rcall.ret = -1
    /\ linecounter > 0
    /\ maxlength > 0

C10_InsertFrame ==
    [][mcall' # NoCall =>
       LET c == mcall'
       IN  /\ (c.line.null \/ c.i < 0 \/ c.i >= size) =>
                /\ c.ret = -1
                /\ documents' = documents
                /\ doc_lengths' = doc_lengths
           /\ ~(c.line.null \/ c.i < 0 \/ c.i >= size) =>
                /\ c.ret = 1
                /\ \A j \in 0..(size - 1) : j # c.i => documents'[j] = documents[j]
                /\ doc_lengths' = doc_lengths
           /\ size' = size
      ]_mapVars

\* a call turned away for its index while the store holds two documents
C10_Witness ==
    /\ mcall.ret = -1
    /\ ~mcall.line.null
    /\ mcall.i >= size
    /\ size >= 2
    /\ \A j \in 0..(size - 1) : ~documents[j].null

=============================================================================
